---- MODULE Spec2Model ----
(***************************************************************************)
(* The aqua_temp climate entity (custom_components/aqua_temp/climate.py):  *)
(* the decode of a register snapshot in _handle_coordinator_update, the     *)
(* three command paths, and the device / transport / refresh loop around    *)
(* them.                                                                    *)
(*                                                                          *)
(* Every Python value is modelled as a string.  A float is modelled by its  *)
(* repr ("22.0"), the None object by the value None below, and str() and    *)
(* float() are modelled by what they do to those values.                    *)
(***************************************************************************)
EXTENDS Naturals, Sequences, FiniteSets, TLC

VARIABLES
    _api_data,                  \* self._api_data: the coordinator's register snapshot
    _attr_hvac_mode,            \* displayed attributes of the entity
    _attr_fan_mode,
    _attr_target_temperature,
    _attr_min_temp,
    _attr_max_temp,
    _attr_current_temperature,
    state_written,              \* the last _handle_coordinator_update reached async_write_ha_state
    call,                       \* the most recent call into the entity and how it ended
    pending_writes,             \* register writes the transport has accepted and not yet applied
    refresh_requested,          \* a refresh requested by a command, not yet delivered
    device,                     \* the device's actual registers
    in_flight,                  \* the snapshot a poll has fetched and not yet delivered (at most one)
    commands                    \* number of commands issued to the live system

attrs == <<_attr_hvac_mode, _attr_fan_mode, _attr_target_temperature,
           _attr_min_temp, _attr_max_temp, _attr_current_temperature>>
entityVars == <<_api_data, _attr_hvac_mode, _attr_fan_mode, _attr_target_temperature,
                _attr_min_temp, _attr_max_temp, _attr_current_temperature, state_written>>
systemVars == <<pending_writes, refresh_requested, device, in_flight, commands>>
vars == <<_api_data, _attr_hvac_mode, _attr_fan_mode, _attr_target_temperature,
          _attr_min_temp, _attr_max_temp, _attr_current_temperature, state_written,
          call, pending_writes, refresh_requested, device, in_flight, commands>>

----------------------------------------------------------------------------
(* Python values *)

\* The None object (what dict.get returns for a missing key).
None == "<None>"

\* str(x): "None" for the None object; the repr of a float and a str are
\* themselves in this encoding.
str(x) == IF x = None THEN "None" ELSE x

\* float(): the strings the model uses that Python parses, with the repr of
\* the float each parses to.  Anything else raises ValueError.
FloatRepr ==
    [s \in {"0", "0.0", "18", "18.0", "20.5", "22", "22.0", "24.5", "30", "30.0"} |->
        CASE s = "0"  -> "0.0"
          [] s = "18" -> "18.0"
          [] s = "22" -> "22.0"
          [] s = "30" -> "30.0"
          [] OTHER    -> s]

\* float(s) does not raise ValueError
Parses(s) == s \in DOMAIN FloatRepr

\* float(s), for a string that parses
float(s) == FloatRepr[s]

\* d.get(k)
Get(d, k) == IF k \in DOMAIN d THEN d[k] ELSE None

\* d.get(k, default)
GetOr(d, k, default) == IF k \in DOMAIN d THEN d[k] ELSE default

\* d with d[k] = v
Put(d, k, v) == [x \in (DOMAIN d) \cup {k} |-> IF x = k THEN v ELSE d[x]]

\* d without key k
Del(d, k) == [x \in (DOMAIN d) \ {k} |-> d[x]]

EmptyDict == [x \in {} |-> None]

----------------------------------------------------------------------------
(* The vocabulary tables *)

HVACMode_OFF == "off"
HVACMode_COOL == "cool"
HVACMode_HEAT == "heat"
HVACMode_AUTO == "auto"
HVACModes == {HVACMode_OFF, HVACMode_COOL, HVACMode_HEAT, HVACMode_AUTO}

FAN_AUTO == "auto"
FAN_LOW == "low"
FanModes == {FAN_AUTO, FAN_LOW}

MODE_TEMPERATURE_COOL == "0"
MODE_TEMPERATURE_HEAT == "1"
MODE_TEMPERATURE_AUTO == "2"

\* HVAC mode -> vendor mode code; OFF has no code
HVAC_MODE_MAPPING_SwapCoolHeat ==
    [m \in HVACModes |->
        CASE m = HVACMode_OFF  -> None
          [] m = HVACMode_COOL -> MODE_TEMPERATURE_HEAT
          [] m = HVACMode_HEAT -> MODE_TEMPERATURE_COOL
          [] m = HVACMode_AUTO -> MODE_TEMPERATURE_AUTO]

HVAC_MODE_MAPPING ==
    [m \in HVACModes |->
        CASE m = HVACMode_OFF  -> None
          [] m = HVACMode_COOL -> MODE_TEMPERATURE_COOL
          [] m = HVACMode_HEAT -> MODE_TEMPERATURE_HEAT
          [] m = HVACMode_AUTO -> MODE_TEMPERATURE_AUTO]

\* vendor mode code -> HVAC mode
HVAC_PC_MAPPING ==
    [c \in {MODE_TEMPERATURE_COOL, MODE_TEMPERATURE_HEAT, MODE_TEMPERATURE_AUTO} |->
        CASE c = MODE_TEMPERATURE_COOL -> HVACMode_COOL
          [] c = MODE_TEMPERATURE_HEAT -> HVACMode_HEAT
          [] c = MODE_TEMPERATURE_AUTO -> HVACMode_AUTO]

\* the per-mode target register: "R0" + code; OFF has none
HVAC_MODE_TARGET_TEMPERATURE_WithOff ==
    [m \in HVACModes |-> "R0" \o str(HVAC_MODE_MAPPING[m])]

HVAC_MODE_TARGET_TEMPERATURE ==
    [m \in {HVACMode_COOL, HVACMode_HEAT, HVACMode_AUTO} |-> "R0" \o HVAC_MODE_MAPPING[m]]

\* the per-mode bound indirection keys: COOL and HEAT only
HVAC_MODE_MIN_TEMP ==
    [m \in {HVACMode_COOL, HVACMode_HEAT} |-> "mintemp" \o HVAC_MODE_MAPPING[m]]

HVAC_MODE_MAX_TEMP ==
    [m \in {HVACMode_COOL, HVACMode_HEAT} |-> "maxtemp" \o HVAC_MODE_MAPPING[m]]

\* manual-mute code -> fan mode
MANUAL_MUTE_MAPPING ==
    [c \in {"0", "1"} |-> IF c = "0" THEN FAN_AUTO ELSE FAN_LOW]

\* fan mode -> manual-mute code
FAN_MODE_MAPPING ==
    [f \in FanModes |-> IF f = FAN_AUTO THEN "0" ELSE "1"]

PROTOCOL_CODE_HVAC_MODE == "mode"
PROTOCOL_CODE_POWER == "power"
PROTOCOL_CODE_FAN_MODE == "fanmute"
PROTOCOL_CODE_CURRENT_TEMP == "currenttemp"

\* BINARY_SENSOR_CONFIG.get(PROTOCOL_CODE_POWER).get("value"): the on-sentinel
power_on_value == "1"
power_off_value == "0"

----------------------------------------------------------------------------
(* _handle_coordinator_update *)

\* is_power_on = power == power_on_value: exact equality with the sentinel
is_power_on_Truthy(power) == power # None

is_power_on(power) == power = power_on_value

\* The displayed attributes as one record
Attrs(h, f, t, lo, hi, c) ==
    [hvac_mode |-> h, fan_mode |-> f, target_temperature |-> t,
     min_temp |-> lo, max_temp |-> hi, current_temperature |-> c]

CurrentAttrs ==
    Attrs(_attr_hvac_mode, _attr_fan_mode, _attr_target_temperature,
          _attr_min_temp, _attr_max_temp, _attr_current_temperature)

\* How a call into the entity ended: the operation and its argument, the
\* exception raised inside it ("" for none) and where, whether it was logged,
\* whether it left the call, the register writes the call handed to the
\* transport and whether it requested a refresh.
Outcome(op, arg, error, at, logged, propagated, written, refresh) ==
    [op |-> op, arg |-> arg, error |-> error, at |-> at, logged |-> logged,
     propagated |-> propagated, writes |-> written, refresh |-> refresh]

\* The locals the handler computes before it assigns anything (lines 151-171)
Locals(d) ==
    LET mode == Get(d, PROTOCOL_CODE_HVAC_MODE)
        power == Get(d, PROTOCOL_CODE_POWER)
        manual_mute == Get(d, PROTOCOL_CODE_FAN_MODE)
        current_temperature == Get(d, PROTOCOL_CODE_CURRENT_TEMP)
        on == is_power_on(power)
        hvac_mode == IF on THEN Get(HVAC_PC_MAPPING, mode) ELSE HVACMode_OFF
        min_temp_key == Get(HVAC_MODE_MIN_TEMP, hvac_mode)
        max_temp_key == Get(HVAC_MODE_MAX_TEMP, hvac_mode)
        hvac_mode_code == Get(HVAC_MODE_MAPPING, hvac_mode)
        hvac_mode_param == "R0" \o str(hvac_mode_code)
    IN  [mode |-> mode, power |-> power, manual_mute |-> manual_mute,
         current_temperature |-> current_temperature,
         is_power_on |-> on,
         hvac_mode |-> hvac_mode,
         min_temp |-> GetOr(d, min_temp_key, "0"),
         max_temp |-> GetOr(d, max_temp_key, "0"),
         hvac_mode_param |-> hvac_mode_param,
         hvac_mode_temperature_value |-> Get(d, hvac_mode_param)]

\* Line 179: self._attr_target_temperature = float(str(target_temperature))
TargetAssigned(target_temperature) ==
    [raises |-> ~Parses(str(target_temperature)),
     value |-> IF Parses(str(target_temperature))
               THEN float(str(target_temperature)) ELSE None]

\* The whole handler on snapshot d, from the attributes old: the attributes
\* after the call, the exception that ended it (if any) and whether the state
\* was written.  Each assignment made before an exception stays made.
handle_coordinator_update(d, old) ==
    LET l == Locals(d)
        parse_target == l.is_power_on /\ l.hvac_mode_temperature_value # None
        target_temperature ==
            IF parse_target /\ Parses(l.hvac_mode_temperature_value)
            THEN float(l.hvac_mode_temperature_value) ELSE None
        a178 == [old EXCEPT !.hvac_mode = l.hvac_mode,
                            !.fan_mode = Get(MANUAL_MUTE_MAPPING, l.manual_mute)]
        t179 == TargetAssigned(target_temperature)
        a179 == [a178 EXCEPT !.target_temperature = t179.value]
        a180 == [a179 EXCEPT !.min_temp = float(str(l.min_temp))]
        a181 == [a180 EXCEPT !.max_temp = float(str(l.max_temp))]
        a184 == IF l.current_temperature # None
                THEN [a181 EXCEPT !.current_temperature = float(str(l.current_temperature))]
                ELSE a181
        raised(a, at) == [attrs |-> a, error |-> "ValueError", at |-> at, written |-> FALSE]
    IN  IF parse_target /\ ~Parses(l.hvac_mode_temperature_value) THEN raised(old, "175")
        ELSE IF t179.raises THEN raised(a178, "179")
        ELSE IF ~Parses(str(l.min_temp)) THEN raised(a179, "180")
        ELSE IF ~Parses(str(l.max_temp)) THEN raised(a180, "181")
        ELSE IF l.current_temperature # None /\ ~Parses(str(l.current_temperature))
             THEN raised(a181, "184")
        ELSE [attrs |-> a184, error |-> "", at |-> "", written |-> TRUE]

\* The coordinator calls the entity's update listener on the snapshot d.
CoordinatorUpdate(d) ==
    \E r \in {handle_coordinator_update(d, CurrentAttrs)} :
    /\ _api_data' = d
    /\ _attr_hvac_mode' = r.attrs.hvac_mode
    /\ _attr_fan_mode' = r.attrs.fan_mode
    /\ _attr_target_temperature' = r.attrs.target_temperature
    /\ _attr_min_temp' = r.attrs.min_temp
    /\ _attr_max_temp' = r.attrs.max_temp
    /\ _attr_current_temperature' = r.attrs.current_temperature
    /\ state_written' = r.written
    /\ call' = Outcome("update", None, r.error, r.at, FALSE, r.error # "", {}, FALSE)

----------------------------------------------------------------------------
(* Register snapshots *)

ModeCodes == {MODE_TEMPERATURE_COOL, MODE_TEMPERATURE_HEAT, MODE_TEMPERATURE_AUTO}

\* The registers that belong to the mode with code c
ModeRegisters(c) == {"R0" \o c, "mintemp" \o c, "maxtemp" \o c}

TargetRegisters == {"R0" \o c : c \in ModeCodes}
BoundRegisters == {HVAC_MODE_MIN_TEMP[m] : m \in DOMAIN HVAC_MODE_MIN_TEMP}
                    \cup {HVAC_MODE_MAX_TEMP[m] : m \in DOMAIN HVAC_MODE_MAX_TEMP}

Registers ==
    {PROTOCOL_CODE_POWER, PROTOCOL_CODE_HVAC_MODE, PROTOCOL_CODE_FAN_MODE,
     PROTOCOL_CODE_CURRENT_TEMP} \cup TargetRegisters \cup BoundRegisters

\* The raw values a register takes in the model: the codes of the vocabulary,
\* a code outside it ("9", "7"), numeric strings and a non-numeric one ("abc").
RawValues(k) ==
    CASE k = PROTOCOL_CODE_POWER        -> {power_off_value, power_on_value}
      [] k = PROTOCOL_CODE_HVAC_MODE    -> ModeCodes \cup {"9"}
      [] k = PROTOCOL_CODE_FAN_MODE     -> {"0", "1", "7"}
      [] k = PROTOCOL_CODE_CURRENT_TEMP -> {"20.5", "abc"}
      [] k \in TargetRegisters          -> {"22", "abc"}
      [] k \in {HVAC_MODE_MIN_TEMP[m] : m \in DOMAIN HVAC_MODE_MIN_TEMP} -> {"18"}
      [] OTHER                          -> {"30"}

\* Bound on the snapshots: the per-mode registers present belong to one mode.
OneModeOnly(d) ==
    \E c \in ModeCodes :
        (DOMAIN d) \cap (TargetRegisters \cup BoundRegisters) \subseteq ModeRegisters(c)

\* The snapshots one register away from d (or d itself): a register of keys
\* takes another value, appears or disappears.
NextSnapshots(d, keys) ==
    {s \in UNION {{Put(d, k, v) : v \in RawValues(k)} \cup {Del(d, k)} : k \in keys} :
        OneModeOnly(s)}

\* The registers that vary in the specification of the entity with its commands
CommandRegisters ==
    {PROTOCOL_CODE_POWER, PROTOCOL_CODE_HVAC_MODE, PROTOCOL_CODE_CURRENT_TEMP}
        \cup TargetRegisters

----------------------------------------------------------------------------
(* Construction (__init__, lines 60-94) *)

InitEntity ==
    /\ _api_data = EmptyDict
    /\ _attr_hvac_mode = HVACMode_OFF
    /\ _attr_fan_mode = FAN_AUTO
    /\ _attr_target_temperature = None
    /\ _attr_min_temp = None
    /\ _attr_max_temp = None
    /\ _attr_current_temperature = None
    /\ state_written = FALSE
    /\ call = Outcome("__init__", None, "", "", FALSE, FALSE, {}, FALSE)

InitSystem ==
    /\ pending_writes = {}
    /\ refresh_requested = FALSE
    /\ device = EmptyDict
    /\ in_flight = {}
    /\ commands = 0

Init == InitEntity /\ InitSystem

----------------------------------------------------------------------------
(* The decode alone: every poll hands the entity a snapshot *)

DecodePoll ==
    /\ \E d \in NextSnapshots(_api_data, Registers) : CoordinatorUpdate(d)
    /\ UNCHANGED systemVars

DecodeNext == DecodePoll

DecodeSpec == Init /\ [][DecodeNext]_vars

----------------------------------------------------------------------------
(* The coordinator's write operations, as the entity calls them *)

\* The result of an encode: the exception it raises ("" for none) and the
\* register writes it produces
Encoded(error, written) == [error |-> error, writes |-> written]

\* coordinator.set_temperature(device_code, hvac_mode, temperature): one write
\* to the target register of the mode; a mode with no target register is an error
encodeSetTemperature(hvac_mode, temperature) ==
    IF hvac_mode \in DOMAIN HVAC_MODE_TARGET_TEMPERATURE
    THEN Encoded("", {<<HVAC_MODE_TARGET_TEMPERATURE[hvac_mode], str(temperature)>>})
    ELSE Encoded("InvalidModeError", {})

\* coordinator.set_hvac_mode(device_code, hvac_mode): OFF writes the power
\* register; an active mode writes power on and the mode code
encodeSetHvacMode(hvac_mode) ==
    IF hvac_mode = HVACMode_OFF
    THEN Encoded("", {<<PROTOCOL_CODE_POWER, power_off_value>>})
    ELSE IF hvac_mode \in DOMAIN HVAC_MODE_MAPPING
    THEN Encoded("", {<<PROTOCOL_CODE_POWER, power_on_value>>,
                      <<PROTOCOL_CODE_HVAC_MODE, HVAC_MODE_MAPPING[hvac_mode]>>})
    ELSE Encoded("InvalidModeError", {})

\* coordinator.set_fan_mode(device_code, fan_mode): one write of the manual-mute code
encodeSetFanMode(fan_mode) ==
    IF fan_mode \in DOMAIN FAN_MODE_MAPPING
    THEN Encoded("", {<<PROTOCOL_CODE_FAN_MODE, FAN_MODE_MAPPING[fan_mode]>>})
    ELSE Encoded("InvalidModeError", {})

\* The awaited coordinator call: the encode, then the transport, which may fail
CoordinatorWrite(encoded, transport_ok) ==
    IF encoded.error # "" THEN encoded
    ELSE IF ~transport_ok THEN Encoded("TransportError", {})
    ELSE encoded

----------------------------------------------------------------------------
(* The command paths (lines 106-147) *)

CommandOps == {"async_set_temperature", "async_set_hvac_mode", "async_set_fan_mode"}

\* The arguments the host passes
Temperatures == {"22.0", "24.5"}
RequestedHvacModes == HVACModes \cup {"dry"}
RequestedFanModes == FanModes \cup {"high"}

\* A command with no try/except around its awaits
except_Exception_Unhandled(op, arg, error, at, written) ==
    Outcome(op, arg, error, at, FALSE, TRUE, written, FALSE)

\* except Exception as ex: _LOGGER.warning(...): the error is logged and the
\* call returns normally
except_Exception(op, arg, error, at, written) ==
    Outcome(op, arg, error, at, TRUE, FALSE, written, FALSE)

\* try: await <coordinator write>; await async_request_refresh()
TryCommand(op, arg, write, refresh_ok) ==
    IF write.error # "" THEN except_Exception(op, arg, write.error, "write", {})
    ELSE IF ~refresh_ok THEN except_Exception(op, arg, "RefreshError", "refresh", write.writes)
    ELSE Outcome(op, arg, "", "", FALSE, FALSE, write.writes, TRUE)

async_set_temperature(temperature, transport_ok, refresh_ok) ==
    /\ call' = TryCommand("async_set_temperature", temperature,
                          CoordinatorWrite(encodeSetTemperature(_attr_hvac_mode, temperature),
                                           transport_ok),
                          refresh_ok)
    /\ UNCHANGED entityVars

async_set_hvac_mode(hvac_mode, transport_ok, refresh_ok) ==
    /\ call' = TryCommand("async_set_hvac_mode", hvac_mode,
                          CoordinatorWrite(encodeSetHvacMode(hvac_mode), transport_ok),
                          refresh_ok)
    /\ UNCHANGED entityVars

async_set_fan_mode(fan_mode, transport_ok, refresh_ok) ==
    /\ call' = TryCommand("async_set_fan_mode", fan_mode,
                          CoordinatorWrite(encodeSetFanMode(fan_mode), transport_ok),
                          refresh_ok)
    /\ UNCHANGED entityVars

----------------------------------------------------------------------------
(* The entity: polls and commands *)

Poll ==
    /\ \E d \in NextSnapshots(_api_data, CommandRegisters) : CoordinatorUpdate(d)
    /\ UNCHANGED systemVars

SetTemperature ==
    /\ \E t \in Temperatures, transport_ok \in BOOLEAN, refresh_ok \in BOOLEAN :
          async_set_temperature(t, transport_ok, refresh_ok)
    /\ UNCHANGED systemVars

SetHvacMode ==
    /\ \E m \in RequestedHvacModes, transport_ok \in BOOLEAN, refresh_ok \in BOOLEAN :
          async_set_hvac_mode(m, transport_ok, refresh_ok)
    /\ UNCHANGED systemVars

SetFanMode ==
    /\ \E f \in RequestedFanModes, transport_ok \in BOOLEAN, refresh_ok \in BOOLEAN :
          async_set_fan_mode(f, transport_ok, refresh_ok)
    /\ UNCHANGED systemVars

Next == Poll \/ SetTemperature \/ SetHvacMode \/ SetFanMode

Spec == Init /\ [][Next]_vars

----------------------------------------------------------------------------
(* The live system: the device, the transport, the periodic poll and the    *)
(* refresh a command requests                                                *)

\* Bound on the commands issued to the live system
MaxCommands == 2

\* The device as the example scenario has it: on, heating, and reporting
\* every register of every mode
DeviceAtStart ==
    [k \in Registers |->
        CASE k = PROTOCOL_CODE_POWER        -> power_on_value
          [] k = PROTOCOL_CODE_HVAC_MODE    -> MODE_TEMPERATURE_HEAT
          [] k = PROTOCOL_CODE_FAN_MODE     -> "0"
          [] k = PROTOCOL_CODE_CURRENT_TEMP -> "20.5"
          [] k \in TargetRegisters          -> "22"
          [] k \in {HVAC_MODE_MIN_TEMP[m] : m \in DOMAIN HVAC_MODE_MIN_TEMP} -> "18"
          [] OTHER                          -> "30"]

LiveInit ==
    /\ InitEntity
    /\ pending_writes = {}
    /\ refresh_requested = FALSE
    /\ device = DeviceAtStart
    /\ in_flight = {}
    /\ commands = 0

\* d after the register writes w
Applied(d, w) ==
    [k \in (DOMAIN d) \cup {x[1] : x \in w} |->
        IF \E x \in w : x[1] = k THEN (CHOOSE x \in w : x[1] = k)[2] ELSE d[k]]

\* A command reaches the entity; what its call hands to the transport and the
\* refresh it requests are queued.
Issued ==
    /\ commands < MaxCommands
    /\ pending_writes = {}
    /\ commands' = commands + 1
    /\ pending_writes' = call'.writes
    /\ refresh_requested' = (refresh_requested \/ call'.refresh)
    /\ UNCHANGED <<device, in_flight>>

LiveSetTemperature ==
    /\ \E t \in Temperatures, transport_ok \in BOOLEAN, refresh_ok \in BOOLEAN :
          async_set_temperature(t, transport_ok, refresh_ok)
    /\ Issued

LiveSetHvacMode ==
    /\ \E m \in RequestedHvacModes, transport_ok \in BOOLEAN, refresh_ok \in BOOLEAN :
          async_set_hvac_mode(m, transport_ok, refresh_ok)
    /\ Issued

LiveSetFanMode ==
    /\ \E f \in RequestedFanModes, transport_ok \in BOOLEAN, refresh_ok \in BOOLEAN :
          async_set_fan_mode(f, transport_ok, refresh_ok)
    /\ Issued

\* The transport applies the accepted writes to the device
TransportApply ==
    /\ pending_writes # {}
    /\ device' = Applied(device, pending_writes)
    /\ pending_writes' = {}
    /\ UNCHANGED <<entityVars, call, refresh_requested, in_flight, commands>>

\* A poll (the periodic one, or the one a refresh request starts) reads the
\* device's registers
PollFetch ==
    /\ in_flight = {}
    /\ in_flight' = {device}
    /\ refresh_requested' = FALSE
    /\ UNCHANGED <<entityVars, call, pending_writes, device, commands>>

\* The poll's snapshot reaches the entity
PollDeliver ==
    /\ \E d \in in_flight : CoordinatorUpdate(d)
    /\ in_flight' = {}
    /\ UNCHANGED <<pending_writes, refresh_requested, device, commands>>

LiveNext ==
    \/ LiveSetTemperature
    \/ LiveSetHvacMode
    \/ LiveSetFanMode
    \/ TransportApply
    \/ PollFetch
    \/ PollDeliver

\* The host schedules the periodic poll forever and the transport is
\* eventually effective.
LiveSpec ==
    /\ LiveInit
    /\ [][LiveNext]_vars
    /\ WF_vars(TransportApply)
    /\ WF_vars(PollFetch)
    /\ WF_vars(PollDeliver)

----------------------------------------------------------------------------
(* What the snapshot in _api_data says, read without the handler *)

SnapshotPower == Get(_api_data, PROTOCOL_CODE_POWER)
SnapshotMode == Get(_api_data, PROTOCOL_CODE_HVAC_MODE)
SnapshotPowerOn == SnapshotPower = power_on_value

\* The last call into the entity was a poll's update
Updated == call.op = "update"

\* The decode the contract describes (decodeState): the state a snapshot with
\* codes of the vocabulary and numeric registers stands for
decodeState(d) ==
    LET on == Get(d, PROTOCOL_CODE_POWER) = power_on_value
        code == Get(d, PROTOCOL_CODE_HVAC_MODE)
        hvac_mode == IF on THEN Get(HVAC_PC_MAPPING, code) ELSE HVACMode_OFF
        target == "R0" \o str(code)
        bound(table) ==
            IF hvac_mode \in DOMAIN table /\ table[hvac_mode] \in DOMAIN d
            THEN float(d[table[hvac_mode]]) ELSE "0.0"
    IN  Attrs(hvac_mode,
              Get(MANUAL_MUTE_MAPPING, Get(d, PROTOCOL_CODE_FAN_MODE)),
              IF on /\ target \in DOMAIN d THEN float(d[target]) ELSE None,
              bound(HVAC_MODE_MIN_TEMP),
              bound(HVAC_MODE_MAX_TEMP),
              IF PROTOCOL_CODE_CURRENT_TEMP \in DOMAIN d
              THEN float(d[PROTOCOL_CODE_CURRENT_TEMP]) ELSE None)

----------------------------------------------------------------------------
(* C1 *)

\* C1: after an update, when the power register is off, or power is on and
\* the target register "R0"+modeCode of a mode of the vocabulary is absent,
\* the decode completed without an exception and target_temperature is None;
\* when power is on and that register is present and numeric,
\* target_temperature is its float value.
C1_TargetTemperature ==
    Updated =>
        LET key == "R0" \o str(SnapshotMode) IN
        /\ (SnapshotPower = power_off_value
              \/ (SnapshotPowerOn /\ SnapshotMode \in ModeCodes
                    /\ key \notin DOMAIN _api_data)) =>
              (call.error = "" /\ _attr_target_temperature = None)
        /\ (SnapshotPowerOn /\ key \in DOMAIN _api_data /\ Parses(_api_data[key])) =>
              _attr_target_temperature = float(_api_data[key])

----------------------------------------------------------------------------
(* C2 *)

\* C2: whenever the snapshot's power register is not the on-sentinel (absent
\* included), the entity's hvac_mode is OFF, whatever the mode register holds.
C2_PowerOffIsOff ==
    ~SnapshotPowerOn => _attr_hvac_mode = HVACMode_OFF

\* An update of a powered-off snapshot whose mode register holds a valid code
C2_Witness ==
    /\ Updated
    /\ SnapshotPower = power_off_value
    /\ SnapshotMode = MODE_TEMPERATURE_HEAT
    /\ _attr_hvac_mode = HVACMode_OFF

----------------------------------------------------------------------------
(* C3 *)

\* The snapshot holds a mode code (with power on) or a manual-mute code that
\* the vocabulary has no entry for
UnrecognizedCode ==
    \/ /\ SnapshotPowerOn
       /\ PROTOCOL_CODE_HVAC_MODE \in DOMAIN _api_data
       /\ SnapshotMode \notin DOMAIN HVAC_PC_MAPPING
    \/ /\ PROTOCOL_CODE_FAN_MODE \in DOMAIN _api_data
       /\ _api_data[PROTOCOL_CODE_FAN_MODE] \notin DOMAIN MANUAL_MUTE_MAPPING

\* C3: after an update of a snapshot that holds a code outside the vocabulary,
\* hvac_mode is still one of OFF, COOL, HEAT, AUTO and fan_mode a member of
\* the fan enumeration: the code never leaves an undefined value in either.
C3_ClosedEnumerations ==
    (Updated /\ UnrecognizedCode) =>
        /\ _attr_hvac_mode \in HVACModes
        /\ _attr_fan_mode \in FanModes

----------------------------------------------------------------------------
(* C4 *)

\* C4: a command whose coordinator write or refresh request raises logs the
\* error, returns normally, and leaves every displayed attribute, the
\* snapshot and the published state as they were.
C4_FailedCommandLeavesState ==
    [][(call'.op \in CommandOps /\ call'.error # "") =>
          /\ call'.logged
          /\ ~call'.propagated
          /\ attrs' = attrs
          /\ _api_data' = _api_data
          /\ state_written' = state_written]_vars

\* A command failed in the transport while the entity displayed a decoded state
C4_Witness ==
    /\ call.op = "async_set_hvac_mode"
    /\ call.error = "TransportError"
    /\ call.logged
    /\ _attr_hvac_mode = HVACMode_HEAT
    /\ _attr_target_temperature = "22.0"
    /\ state_written

----------------------------------------------------------------------------
(* C5 *)

\* C5: a command requests a refresh exactly when its write succeeded, and
\* after every command whose write and refresh request succeeded the
\* published state eventually equals the decode of the device's registers.
C5_CommandConverges ==
    /\ [](call.op \in CommandOps => (call.refresh => call.error = ""))
    /\ []((call.op \in CommandOps /\ call.error = "") =>
            <>(state_written /\ CurrentAttrs = decodeState(device)))

----------------------------------------------------------------------------
(* C6 *)

\* C6: set temperature while hvac_mode has no target register (OFF, or a value
\* outside the vocabulary) ends in InvalidModeError with no register write;
\* with COOL, HEAT or AUTO it never ends in InvalidModeError, and the write it
\* hands to the transport is exactly one, to "R0"+code with the temperature.
C6_SetTemperatureByMode ==
    call.op = "async_set_temperature" =>
        IF _attr_hvac_mode \in {HVACMode_COOL, HVACMode_HEAT, HVACMode_AUTO}
        THEN /\ call.error # "InvalidModeError"
             /\ call.error \in {"", "RefreshError"} =>
                   call.writes = {<<"R0" \o HVAC_MODE_MAPPING[_attr_hvac_mode], call.arg>>}
        ELSE /\ call.error = "InvalidModeError"
             /\ call.writes = {}
             /\ ~call.refresh

\* Set temperature was called while the entity displayed OFF after an update
C6_Witness ==
    /\ call.op = "async_set_temperature"
    /\ _attr_hvac_mode = HVACMode_OFF
    /\ SnapshotPower = power_off_value
    /\ call.error = "InvalidModeError"

----------------------------------------------------------------------------
(* C7 *)

\* C7: after an update that completed, a snapshot without the
\* current-temperature register leaves current_temperature None, whatever an
\* earlier snapshot supplied.
C7_CurrentTemperatureFromSnapshot ==
    (Updated /\ call.error = "" /\ PROTOCOL_CODE_CURRENT_TEMP \notin DOMAIN _api_data) =>
        _attr_current_temperature = None

----------------------------------------------------------------------------
(* C8 *)

\* C8: for each of COOL, HEAT, AUTO, an update of a powered-on snapshot whose
\* mode register holds the mode's code (and whose target register did not
\* abort the decode as non-numeric) leaves hvac_mode at that mode, and the
\* code of the decoded mode is the mode register again; the three codes are
\* pairwise distinct and OFF is the only mode without a code.
C8_ModeRoundTrip ==
    /\ \A m \in {HVACMode_COOL, HVACMode_HEAT, HVACMode_AUTO} :
          (Updated /\ call.at # "175" /\ SnapshotPowerOn
              /\ SnapshotMode = HVAC_MODE_MAPPING[m]) =>
             /\ _attr_hvac_mode = m
             /\ Get(HVAC_MODE_MAPPING, _attr_hvac_mode) = SnapshotMode
    /\ \A m1, m2 \in HVACModes :
          HVAC_MODE_MAPPING[m1] = HVAC_MODE_MAPPING[m2] => m1 = m2
    /\ \A m \in HVACModes : (HVAC_MODE_MAPPING[m] = None) <=> (m = HVACMode_OFF)

\* An update decoded a powered-on snapshot with the code of COOL
C8_Witness ==
    /\ Updated
    /\ SnapshotPowerOn
    /\ SnapshotMode = MODE_TEMPERATURE_COOL
    /\ _attr_hvac_mode = HVACMode_COOL

----------------------------------------------------------------------------
(* C9 *)

\* C9: after an update, a snapshot that decodes to OFF or AUTO and holds no
\* bound register leaves min_temp = max_temp = 0; for COOL and HEAT the bounds
\* are the floats of the registers the per-mode keys name, 0 when absent.
C9_Bounds ==
    Updated =>
        LET d == decodeState(_api_data) IN
        /\ (d.hvac_mode \in {HVACMode_OFF, HVACMode_AUTO}
              /\ PROTOCOL_CODE_POWER \in DOMAIN _api_data
              /\ (DOMAIN _api_data) \cap BoundRegisters = {}) =>
             (_attr_min_temp = "0.0" /\ _attr_max_temp = "0.0")
        /\ (d.hvac_mode \in {HVACMode_COOL, HVACMode_HEAT} /\ call.at # "175") =>
             (_attr_min_temp = d.min_temp /\ _attr_max_temp = d.max_temp)

----------------------------------------------------------------------------
(* C10 *)

\* C10: an update that raises on a register value that does not parse as a
\* number changes no displayed attribute and publishes nothing.
C10_AllOrNothing ==
    [][(call'.op = "update" /\ call'.error # ""
          /\ call'.at \in {"175", "180", "181", "184"}) =>
          (attrs' = attrs /\ ~state_written')]_vars

====
